---- MODULE Spec2Model ----
(***************************************************************************)
(* Model of the "NDs Realizadas" page of app_gestao                        *)
(* (src/paginas/nds_realizadas.py).  The filter loop of the "Analistas"   *)
(* page (src/paginas/analistas.py, lines 137-141) has the form of the      *)
(* loop modelled here for the columns that are not periods.                *)
(*                                                                         *)
(* Text is modelled as a sequence of characters.  An ASCII character is    *)
(* the one-character string; a character outside ASCII is written with an  *)
(* ASCII name: "i_acute" is U+00ED, "a_acute" U+00E1, "A_acute" U+00C1,    *)
(* "I_acute" U+00CD, "c_cedilla" U+00E7, "a_tilde" U+00E3, and            *)
(* "comb_acute", "comb_tilde", "comb_cedilla" are the combining marks      *)
(* U+0301, U+0303, U+0327.                                                 *)
(*                                                                         *)
(* A cell value is a record: [kind |-> "null"] (None / NaN / NaT),         *)
(* [kind |-> "str", s |-> chars], [kind |-> "date", year, month] (a        *)
(* Timestamp, first day of the month, midnight) or [kind |-> "num", n].    *)
(***************************************************************************)
EXTENDS Integers, Sequences, FiniteSets, TLC

(***************************************************************************)
(* Characters and the Python string operations the page uses               *)
(***************************************************************************)
Digits == <<"0", "1", "2", "3", "4", "5", "6", "7", "8", "9">>

UpperCase == <<"A", "B", "C", "D", "E", "F", "G", "H", "I", "J", "K", "L", "M",
               "N", "O", "P", "Q", "R", "S", "T", "U", "V", "W", "X", "Y", "Z">>

LowerCase == <<"a", "b", "c", "d", "e", "f", "g", "h", "i", "j", "k", "l", "m",
               "n", "o", "p", "q", "r", "s", "t", "u", "v", "w", "x", "y", "z">>

Range(f) == {f[i] : i \in DOMAIN f}

DigitSet == {"0", "1", "2", "3", "4", "5", "6", "7", "8", "9"}

UpperSet == {"A", "B", "C", "D", "E", "F", "G", "H", "I", "J", "K", "L", "M",
             "N", "O", "P", "Q", "R", "S", "T", "U", "V", "W", "X", "Y", "Z"}

LowerSet == {"a", "b", "c", "d", "e", "f", "g", "h", "i", "j", "k", "l", "m",
             "n", "o", "p", "q", "r", "s", "t", "u", "v", "w", "x", "y", "z"}

IndexOf(seq, x) == CHOOSE i \in DOMAIN seq : seq[i] = x

IsDigit(c) == c \in DigitSet

IsLowerAscii(c) == c \in LowerSet

DigitVal(c) == IndexOf(Digits, c) - 1

\* ord(c): the Unicode code point, which orders Python strings
Ord(c) ==
    CASE c = " " -> 32
      [] c = "+" -> 43
      [] c = "-" -> 45
      [] c = "." -> 46
      [] c = "/" -> 47
      [] c = ":" -> 58
      [] c = "_" -> 95
      [] c \in DigitSet -> 47 + IndexOf(Digits, c)
      [] c \in UpperSet -> 64 + IndexOf(UpperCase, c)
      [] c \in LowerSet -> 96 + IndexOf(LowerCase, c)
      [] c = "A_acute" -> 193
      [] c = "I_acute" -> 205
      [] c = "a_acute" -> 225
      [] c = "a_tilde" -> 227
      [] c = "c_cedilla" -> 231
      [] c = "i_acute" -> 237
      [] c = "comb_acute" -> 769
      [] c = "comb_tilde" -> 771
      [] c = "comb_cedilla" -> 807

\* str.lower() on one character
LowerChar(c) ==
    IF c \in UpperSet THEN LowerCase[IndexOf(UpperCase, c)]
    ELSE IF c = "A_acute" THEN "a_acute"
    ELSE IF c = "I_acute" THEN "i_acute"
    ELSE c

RECURSIVE MapLower(_)
MapLower(s) == IF s = <<>> THEN <<>> ELSE <<LowerChar(Head(s))>> \o MapLower(Tail(s))

Lower(s) == MapLower(s)

IsSpace(c) == c = " "

RECURSIVE LStrip(_)
LStrip(s) == IF s # <<>> /\ IsSpace(Head(s)) THEN LStrip(Tail(s)) ELSE s

RECURSIVE RStrip(_)
RStrip(s) ==
    IF s # <<>> /\ IsSpace(s[Len(s)]) THEN RStrip(SubSeq(s, 1, Len(s) - 1)) ELSE s

\* str.strip()
Strip(s) == RStrip(LStrip(s))

\* unicodedata.normalize('NFKD', .) on one character
DecomposeChar(c) ==
    CASE c = "A_acute" -> <<"A", "comb_acute">>
      [] c = "a_acute" -> <<"a", "comb_acute">>
      [] c = "I_acute" -> <<"I", "comb_acute">>
      [] c = "i_acute" -> <<"i", "comb_acute">>
      [] c = "a_tilde" -> <<"a", "comb_tilde">>
      [] c = "c_cedilla" -> <<"c", "comb_cedilla">>
      [] OTHER -> <<c>>

RECURSIVE NFKD(_)
NFKD(s) == IF s = <<>> THEN <<>> ELSE DecomposeChar(Head(s)) \o NFKD(Tail(s))

\* unicodedata.category(ch) == 'Mn'
IsMn(c) == c \in {"comb_acute", "comb_tilde", "comb_cedilla"}

NotMn(c) == ~IsMn(c)

StripMarks(s) == SelectSeq(NFKD(s), NotMn)

\* `kw in s` for Python strings
Contains(s, kw) ==
    \E i \in 0..(Len(s) - Len(kw)) : SubSeq(s, i + 1, i + Len(kw)) = kw

\* lexicographic order of Python strings (by code point)
RECURSIVE StrLess(_, _)
StrLess(a, b) ==
    IF b = <<>> THEN FALSE
    ELSE IF a = <<>> THEN TRUE
    ELSE IF Head(a) = Head(b) THEN StrLess(Tail(a), Tail(b))
    ELSE Ord(Head(a)) < Ord(Head(b))

(***************************************************************************)
(* _normalize                                                              *)
(***************************************************************************)
IsAlnumLower(c) == IsLowerAscii(c) \/ IsDigit(c)

_normalize(text) == SelectSeq(Lower(StripMarks(text)), IsAlnumLower)

(***************************************************************************)
(* _detect_period_columns                                                  *)
(***************************************************************************)
\* Python's None where a column name is expected
NoCol == <<"<None>">>

_KEYWORDS_ND == << <<"p","e","r","i","o","d","o">>, <<"n","d">> >>

_KEYWORDS_ALOC == << <<"p","e","r","i","o","d","o">>, <<"a","l","o","c">>,
                     <<"a","l","o","c","a","c","a","o">>,
                     <<"a","l","o","c","a","c_cedilla","a_tilde","o">> >>

_KEYWORDS_FECH == << <<"p","e","r","i","o","d","o">>, <<"f","e","c","h">>,
                     <<"f","e","c","h","a","m","e","n","t","o">> >>

kw_periodo == <<"p","e","r","i","o","d","o">>

kw_nd == <<"n","d">>

kw_aloc == <<"a","l","o","c">>

kw_fech == <<"f","e","c","h">>

\* the literals compared with c.strip().lower() at lines 69, 71 and 73
ExactNdNames == { <<"p","e","r","i_acute","o","d","o"," ","n","d">>,
                  <<"p","e","r","i","o","d","o"," ","n","d">> }

ExactAlocNames ==
    { <<"p","e","r","i_acute","o","d","o"," ","a","l","o","c","a","c_cedilla","a_tilde","o">>,
      <<"p","e","r","i","o","d","o"," ","a","l","o","c","a","c","a","o">> }

ExactFechNames ==
    { <<"p","e","r","i_acute","o","d","o"," ","f","e","c","h","a","m","e","n","t","o">>,
      <<"p","e","r","i","o","d","o"," ","f","e","c","h","a","m","e","n","t","o">> }

IsExactNd(c) == Lower(Strip(c)) \in ExactNdNames

IsExactAloc(c) == Lower(Strip(c)) \in ExactAlocNames

IsExactFech(c) == Lower(Strip(c)) \in ExactFechNames

\* line 69 without its `not nd_col`: every keyword match takes the role
ScanTakesNd_Unguarded(c, cur) ==
    \/ IsExactNd(c)
    \/ (Contains(_normalize(c), kw_nd) /\ Contains(_normalize(c), kw_periodo))

\* line 69: the condition under which the scan assigns nd_col = c
ScanTakesNd(c, cur) ==
    \/ IsExactNd(c)
    \/ (Contains(_normalize(c), kw_nd) /\ Contains(_normalize(c), kw_periodo) /\ cur = NoCol)

\* line 71
ScanTakesAloc(c, cur) ==
    \/ IsExactAloc(c)
    \/ (Contains(_normalize(c), kw_aloc) /\ Contains(_normalize(c), kw_periodo) /\ cur = NoCol)

\* line 73
ScanTakesFech(c, cur) ==
    \/ IsExactFech(c)
    \/ (Contains(_normalize(c), kw_fech) /\ Contains(_normalize(c), kw_periodo) /\ cur = NoCol)

\* one iteration of the loop of lines 67-74 on column c
ScanStep(c, st) ==
    [nd   |-> IF ScanTakesNd(c, st.nd) THEN c ELSE st.nd,
     aloc |-> IF ScanTakesAloc(c, st.aloc) THEN c ELSE st.aloc,
     fech |-> IF ScanTakesFech(c, st.fech) THEN c ELSE st.fech]

AllKeywordsIn(n, kws) == \A i \in DOMAIN kws : Contains(n, kws[i])

AnyKeywordIn(n, kws) == \E i \in DOMAIN kws : Contains(n, kws[i])

\* line 80
NdFallbackMatches(c) == AllKeywordsIn(_normalize(c), _KEYWORDS_ND)

\* line 86
AlocFallbackMatches(c) ==
    AnyKeywordIn(_normalize(c), _KEYWORDS_ALOC) /\ ~Contains(_normalize(c), kw_nd)

\* line 92
FechFallbackMatches(c) ==
    AnyKeywordIn(_normalize(c), _KEYWORDS_FECH) /\ ~Contains(_normalize(c), kw_nd)

SetMin(S) == CHOOSE x \in S : \A y \in S : x <= y

SetMax(S) == CHOOSE x \in S : \A y \in S : y <= x

\* lines 77-82: `for c in cols: if ...: nd_col = c; break`, run only if not nd_col
FallbackNd(columns, cur) ==
    IF cur # NoCol THEN cur
    ELSE LET M == {i \in DOMAIN columns : NdFallbackMatches(columns[i])}
         IN  IF M = {} THEN NoCol ELSE columns[SetMin(M)]

\* lines 83-88
FallbackAloc(columns, cur) ==
    IF cur # NoCol THEN cur
    ELSE LET M == {i \in DOMAIN columns : AlocFallbackMatches(columns[i])}
         IN  IF M = {} THEN NoCol ELSE columns[SetMin(M)]

\* lines 89-94
FallbackFech(columns, cur) ==
    IF cur # NoCol THEN cur
    ELSE LET M == {i \in DOMAIN columns : FechFallbackMatches(columns[i])}
         IN  IF M = {} THEN NoCol ELSE columns[SetMin(M)]

NoRoles == [nd |-> NoCol, aloc |-> NoCol, fech |-> NoCol]

RECURSIVE ScanAll(_, _)
ScanAll(columns, st) ==
    IF columns = <<>> THEN st ELSE ScanAll(Tail(columns), ScanStep(Head(columns), st))

\* the whole function: the (nd_col, aloc_col, fech_col) it returns
_detect_period_columns(columns) ==
    LET st == ScanAll(columns, NoRoles)
    IN  [nd   |-> FallbackNd(columns, st.nd),
         aloc |-> FallbackAloc(columns, st.aloc),
         fech |-> FallbackFech(columns, st.fech)]

(***************************************************************************)
(* Cell values and Python's str()                                          *)
(***************************************************************************)
Null == [kind |-> "null"]

Str(s) == [kind |-> "str", s |-> s]

DateV(y, m) == [kind |-> "date", year |-> y, month |-> m]

Num(n) == [kind |-> "num", n |-> n]

\* pd.isna / pd.notna
IsNa(v) == v.kind = "null"

RECURSIVE IntToStr(_)
IntToStr(n) ==
    IF n < 10 THEN <<Digits[n + 1]>> ELSE IntToStr(n \div 10) \o <<Digits[(n % 10) + 1]>>

TwoDigits(n) == <<Digits[((n \div 10) % 10) + 1], Digits[(n % 10) + 1]>>

\* str(v): "None" for None, the text itself, "YYYY-MM-01 00:00:00" for a Timestamp
PyStr(v) ==
    CASE v.kind = "null" -> <<"N","o","n","e">>
      [] v.kind = "str" -> v.s
      [] v.kind = "num" -> IntToStr(v.n)
      [] v.kind = "date" ->
            IntToStr(v.year) \o <<"-">> \o TwoDigits(v.month)
                \o <<"-","0","1"," ","0","0",":","0","0",":","0","0">>

(***************************************************************************)
(* _extract_year_month_from_string                                         *)
(* A missing year or month (None) is written 0: the function never yields  *)
(* a year below 2000 or a month below 1, and its callers only test         *)
(* `year and month`.                                                       *)
(***************************************************************************)
_MESES_PT == << <<"J","a","n">>, <<"F","e","v">>, <<"M","a","r">>, <<"A","b","r">>,
                <<"M","a","i">>, <<"J","u","n">>, <<"J","u","l">>, <<"A","g","o">>,
                <<"S","e","t">>, <<"O","u","t">>, <<"N","o","v">>, <<"D","e","z">> >>

keywords_map ==
    << << <<"j","a","n">>, <<"j","a","n","e","i","r","o">> >>,
       << <<"f","e","v">>, <<"f","e","v","e","r","e","i","r","o">> >>,
       << <<"m","a","r">>, <<"m","a","r","c_cedilla","o">>, <<"m","a","r","c","o">> >>,
       << <<"a","b","r">>, <<"a","b","r","i","l">> >>,
       << <<"m","a","i">>, <<"m","a","i","o">> >>,
       << <<"j","u","n">>, <<"j","u","n","h","o">> >>,
       << <<"j","u","l">>, <<"j","u","l","h","o">> >>,
       << <<"a","g","o">>, <<"a","g","o","s","t">>, <<"a","g","o","s","t","o">> >>,
       << <<"s","e","t">>, <<"s","e","t","e","m">>, <<"s","e","t","e","m","b","r","o">>,
          <<"s","e","p">>, <<"c","o","n","j">>, <<"c","o","n","j","u","n">>,
          <<"c","o","n","j","u","n","t","o">> >>,
       << <<"o","u","t">>, <<"o","u","t","u","b">>, <<"o","u","t","u","b","r","o">> >>,
       << <<"n","o","v">>, <<"n","o","v","e","m","b","r","o">> >>,
       << <<"d","e","z">>, <<"d","e","z","e","m","b","r","o">> >> >>

\* the characters re.sub(r'[^a-z0-9/.\- ]', '', .) keeps (line 114)
IsRawNormChar(c) == IsLowerAscii(c) \/ IsDigit(c) \/ c \in {"/", ".", "-", " "}

\* lines 107-114
RawNorm(s) == SelectSeq(StripMarks(Lower(Strip(s))), IsRawNormChar)

DigitAt(s, i) == i \in DOMAIN s /\ IsDigit(s[i])

\* re.search(r'(20\d{2})', raw_norm): the start of the leftmost match, or 0
Year4At(s, i) == DigitAt(s, i + 3) /\ s[i] = "2" /\ s[i + 1] = "0" /\ DigitAt(s, i + 2)

Year4Starts(s) == {i \in DOMAIN s : Year4At(s, i)}

\* lines 117-125 with the two digits at the end read in the century 1900
ExtractYear_Century19(rn) ==
    LET starts == Year4Starts(rn)
    IN  IF starts # {}
        THEN LET i == SetMin(starts)
             IN  2000 + 10 * DigitVal(rn[i + 2]) + DigitVal(rn[i + 3])
        ELSE IF DigitAt(rn, Len(rn) - 1) /\ DigitAt(rn, Len(rn))
         THEN 1900 + 10 * DigitVal(rn[Len(rn) - 1]) + DigitVal(rn[Len(rn)])
         ELSE 0

\* lines 117-125
ExtractYear(rn) ==
    LET starts == Year4Starts(rn)
    IN  IF starts # {}
        THEN LET i == SetMin(starts)
             IN  2000 + 10 * DigitVal(rn[i + 2]) + DigitVal(rn[i + 3])
        ELSE IF DigitAt(rn, Len(rn) - 1) /\ DigitAt(rn, Len(rn))
         THEN 2000 + 10 * DigitVal(rn[Len(rn) - 1]) + DigitVal(rn[Len(rn)])
         ELSE 0

MonthHasKeyword(rn, mnum) == AnyKeywordIn(rn, keywords_map[mnum])

\* lines 143-149: the first month, in the order of keywords_map, one of whose
\* keywords occurs in raw_norm; 0 if none
KeywordMonth(rn) ==
    LET M == {mnum \in DOMAIN keywords_map : MonthHasKeyword(rn, mnum)}
    IN  IF M = {} THEN 0 ELSE SetMin(M)

EndOrNonDigit(s, i) == i = Len(s) + 1 \/ (i \in DOMAIN s /\ ~IsDigit(s[i]))

\* the group (0?[1-9]|1[0-2]) followed by (?:\D|$), tried at position q:
\* the number matched, or 0
NumeralAt(s, q) ==
    IF q \in DOMAIN s /\ s[q] = "0" /\ DigitAt(s, q + 1) /\ s[q + 1] # "0"
          /\ EndOrNonDigit(s, q + 2)
    THEN DigitVal(s[q + 1])
    ELSE IF DigitAt(s, q) /\ s[q] # "0" /\ EndOrNonDigit(s, q + 1)
    THEN DigitVal(s[q])
    ELSE IF q \in DOMAIN s /\ s[q] = "1" /\ DigitAt(s, q + 1)
              /\ s[q + 1] \in {"0", "1", "2"} /\ EndOrNonDigit(s, q + 2)
    THEN 10 + DigitVal(s[q + 1])
    ELSE 0

\* re.search at start position p: (?:^|\D) matches empty at p = 1, else one
\* non-digit at p; the number matched there, or 0
NumeralFrom(s, p) ==
    IF p = 1 /\ NumeralAt(s, 1) # 0 THEN NumeralAt(s, 1)
    ELSE IF p \in DOMAIN s /\ ~IsDigit(s[p]) THEN NumeralAt(s, p + 1)
    ELSE 0

\* lines 152-155
NumericMonth(rn) ==
    LET P == {p \in 1..(Len(rn) + 1) : NumeralFrom(rn, p) # 0}
    IN  IF P = {} THEN 0 ELSE NumeralFrom(rn, SetMin(P))

ExtractMonth(rn) ==
    LET month == KeywordMonth(rn)
    IN  IF month # 0 THEN month ELSE NumericMonth(rn)

_extract_year_month_from_string(s) ==
    IF Strip(s) = <<>> THEN [year |-> 0, month |-> 0]
    ELSE LET raw_norm == RawNorm(s)
         IN  [year |-> ExtractYear(raw_norm), month |-> ExtractMonth(raw_norm)]

(***************************************************************************)
(* _format_period_from_maybe_date_or_string                                *)
(***************************************************************************)
AllDigits(s, from, to) == \A i \in from..to : DigitAt(s, i)

RECURSIVE DigitsVal(_, _, _)
DigitsVal(s, from, to) ==
    IF to < from THEN 0 ELSE 10 * DigitsVal(s, from, to - 1) + DigitVal(s[to])

IsLeap(y) == (y % 4 = 0 /\ y % 100 # 0) \/ y % 400 = 0

DaysIn(y, m) ==
    IF m \in {4, 6, 9, 11} THEN 30
    ELSE IF m = 2 THEN (IF IsLeap(y) THEN 29 ELSE 28)
    ELSE 31

ValidDate(y, m, d) ==
    IF m \in 1..12 /\ y > 0 /\ d \in 1..DaysIn(y, m)
    THEN [kind |-> "date", year |-> y, month |-> m]
    ELSE [kind |-> "null", year |-> 0, month |-> 0]

\* the month abbreviations the date parser behind pd.to_datetime knows; 0 for
\* any other word
EnglishMonth(w) ==
    CASE w = <<"j","a","n">> -> 1 [] w = <<"f","e","b">> -> 2 [] w = <<"m","a","r">> -> 3
      [] w = <<"a","p","r">> -> 4 [] w = <<"m","a","y">> -> 5 [] w = <<"j","u","n">> -> 6
      [] w = <<"j","u","l">> -> 7 [] w = <<"a","u","g">> -> 8 [] w = <<"s","e","p">> -> 9
      [] w = <<"o","c","t">> -> 10 [] w = <<"n","o","v">> -> 11 [] w = <<"d","e","c">> -> 12
      [] OTHER -> 0

\* the year in which the page runs
ThisYear == 2026

\* the year the date parser reads in two digits: the one within fifty years of
\* the current year
ConvertYear(nn) ==
    LET y == (ThisYear \div 100) * 100 + nn
    IN  IF y >= ThisYear + 50 THEN y - 100
        ELSE IF y < ThisYear - 50 THEN y + 100
        ELSE y

\* "Mar/99": a month the parser knows and two digits.  Above 31 the digits are a
\* year and the text is a date; up to 31 they are a day of the year 1, which
\* no Timestamp holds, and the text is NaT.
ParseMonthSlashDigits(r) ==
    LET nn == DigitsVal(r, 5, 6)
    IN  IF nn > 31
        THEN ValidDate(ConvertYear(nn), EnglishMonth(Lower(SubSeq(r, 1, 3))), 1)
        ELSE [kind |-> "null", year |-> 0, month |-> 0]

\* The date parser behind pd.to_datetime(text, errors='coerce') on the texts the
\* sheet holds: "YYYY-MM", "YYYY-MM-DD" and "MM/YYYY" are dates, and so is an
\* English month abbreviation with a two-digit year above 31; a text with a
\* word that is no English month, weekday or time word is NaT.
ParseDateString(s) ==
    LET r == Strip(s)
    IN  IF Len(r) = 7 /\ AllDigits(r, 1, 4) /\ r[5] = "-" /\ AllDigits(r, 6, 7)
        THEN ValidDate(DigitsVal(r, 1, 4), DigitsVal(r, 6, 7), 1)
        ELSE IF Len(r) = 10 /\ AllDigits(r, 1, 4) /\ r[5] = "-" /\ AllDigits(r, 6, 7)
                  /\ r[8] = "-" /\ AllDigits(r, 9, 10)
        THEN ValidDate(DigitsVal(r, 1, 4), DigitsVal(r, 6, 7), DigitsVal(r, 9, 10))
        ELSE IF Len(r) = 7 /\ AllDigits(r, 1, 2) /\ r[3] = "/" /\ AllDigits(r, 4, 7)
        THEN ValidDate(DigitsVal(r, 4, 7), DigitsVal(r, 1, 2), 1)
        ELSE IF Len(r) = 6 /\ r[4] = "/" /\ AllDigits(r, 5, 6)
                  /\ EnglishMonth(Lower(SubSeq(r, 1, 3))) # 0
        THEN ParseMonthSlashDigits(r)
        ELSE [kind |-> "null", year |-> 0, month |-> 0]

\* line 167: dt = pd.to_datetime(val, errors='coerce'); kind "null" is NaT.
\* A number is nanoseconds since 1970-01-01.
to_datetime(v) ==
    CASE v.kind = "date" -> [kind |-> "date", year |-> v.year, month |-> v.month]
      [] v.kind = "num" -> [kind |-> "date", year |-> 1970, month |-> 1]
      [] v.kind = "str" -> ParseDateString(v.s)
      [] v.kind = "null" -> [kind |-> "null", year |-> 0, month |-> 0]

\* f"{_MESES_PT.get(m, str(m))}/{str(y)[-2:]}" (lines 171 and 179)
PeriodLabel(y, m) ==
    (IF m \in DOMAIN _MESES_PT THEN _MESES_PT[m] ELSE IntToStr(m)) \o <<"/">> \o TwoDigits(y)

\* lines 176-180: the free-text path
FormatFromString(v) ==
    IF v.kind = "str"
    THEN LET ym == _extract_year_month_from_string(v.s)
         IN  IF ym.year # 0 /\ ym.month # 0 THEN Str(PeriodLabel(ym.year, ym.month)) ELSE Null
    ELSE Null

\* lines 165-173 with the whole year in the label, not its last two digits
FormatFromDatetime_FullYear(d) == Str(_MESES_PT[d.month] \o <<"/">> \o IntToStr(d.year))

\* lines 165-173: the label of a value pd.to_datetime converts
FormatFromDatetime(d) == Str(PeriodLabel(d.year, d.month))

_format_period_from_maybe_date_or_string(v) ==
    LET d == to_datetime(v)
    IN  IF d.kind # "null" THEN FormatFromDatetime(d) ELSE FormatFromString(v)

\* series.apply(_format_period_from_maybe_date_or_string)
_format_period_series(ser) ==
    [i \in DOMAIN ser |-> _format_period_from_maybe_date_or_string(ser[i])]

(***************************************************************************)
(* _period_options_ordered_from_series                                     *)
(***************************************************************************)
SlashAt(s) == SetMin({i \in DOMAIN s : s[i] = "/"})

\* line 213: m_part, y_part = lbl.split("/") (a label holds exactly one "/")
MPart(lbl) == SubSeq(lbl, 1, SlashAt(lbl) - 1)

YPart(lbl) == SubSeq(lbl, SlashAt(lbl) + 1, Len(lbl))

\* lines 215-219: the month whose abbreviation is m_part, whatever the case; 0 is None
MonthNum(m_part) ==
    LET K == {k \in DOMAIN _MESES_PT : Lower(_MESES_PT[k]) = Lower(m_part)}
    IN  IF K = {} THEN 0 ELSE SetMin(K)

\* lines 220-223; 0 is None
YearNum(y_part) ==
    IF y_part = <<>> \/ ~AllDigits(y_part, 1, Len(y_part)) THEN 0
    ELSE IF Len(y_part) = 2 THEN 2000 + DigitsVal(y_part, 1, 2)
    ELSE DigitsVal(y_part, 1, Len(y_part))

EmptyAcc == [tuples |-> <<>>, others |-> {}]

\* lines 202-210 without lines 208-210: a value with no label is dropped
ClassifyUnlabelled_Dropping(raw, acc) ==
    LET ym == _extract_year_month_from_string(PyStr(raw))
    IN  IF ym.year # 0 /\ ym.month # 0
        THEN [acc EXCEPT !.tuples = Append(@, <<ym.year, ym.month, PeriodLabel(ym.year, ym.month)>>)]
        ELSE acc

\* lines 202-210: no label; the text of the raw value is tried once more
ClassifyUnlabelled(raw, acc) ==
    LET ym == _extract_year_month_from_string(PyStr(raw))
    IN  IF ym.year # 0 /\ ym.month # 0
        THEN [acc EXCEPT !.tuples = Append(@, <<ym.year, ym.month, PeriodLabel(ym.year, ym.month)>>)]
        ELSE IF ~IsNa(raw) THEN [acc EXCEPT !.others = @ \cup {PyStr(raw)}]
        ELSE acc

\* lines 211-227: a label; its (year, month) is read back from it
ClassifyLabelled(lbl, acc) ==
    IF YearNum(YPart(lbl)) # 0 /\ MonthNum(MPart(lbl)) # 0
    THEN [acc EXCEPT !.tuples = Append(@, <<YearNum(YPart(lbl)), MonthNum(MPart(lbl)), lbl>>)]
    ELSE [acc EXCEPT !.others = @ \cup {lbl}]

\* one iteration of the loop of lines 201-227
ClassifyStep(raw, lbl, acc) ==
    IF IsNa(lbl) THEN ClassifyUnlabelled(raw, acc) ELSE ClassifyLabelled(lbl.s, acc)

\* the sort key with month and year swapped: key=lambda t: (t[1], t[0])
TupleLess_MonthFirst(a, b) == a[2] < b[2] \/ (a[2] = b[2] /\ a[1] < b[1])

\* the order of the sort key (t[0], t[1]) of line 231
TupleLess(a, b) == a[1] < b[1] \/ (a[1] = b[1] /\ a[2] < b[2])

\* sorted(unique, key=lambda t: (t[0], t[1]))
RECURSIVE SortTuples(_)
SortTuples(S) ==
    IF S = {} THEN <<>>
    ELSE LET first == CHOOSE a \in S : \A b \in S : ~TupleLess(b, a)
         IN  <<first>> \o SortTuples(S \ {first})

\* sorted(others)
RECURSIVE SortStrings(_)
SortStrings(S) ==
    IF S = {} THEN <<>>
    ELSE LET first == CHOOSE a \in S : \A b \in S : ~StrLess(b, a)
         IN  <<first>> \o SortStrings(S \ {first})

\* line 230: unique = {(y, m, l) for (y, m, l) in tuples}
Unique(tups) == Range(tups)

\* lines 229-238 without the set of line 230: one entry per converted row
BuildResult_NoDedup(acc) ==
    [i \in DOMAIN acc.tuples |-> acc.tuples[i][3]] \o SortStrings(acc.others)

\* lines 229-238
BuildResult(acc) ==
    LET ordered == SortTuples(Unique(acc.tuples))
    IN  [i \in DOMAIN ordered |-> ordered[i][3]] \o SortStrings(acc.others)

RECURSIVE ClassifyFrom(_, _, _, _)
ClassifyFrom(ser, lbls, i, acc) ==
    IF i > Len(ser) THEN acc
    ELSE ClassifyFrom(ser, lbls, i + 1, ClassifyStep(ser[i], lbls[i], acc))

\* the whole function: the list of options of a raw column
_period_options_ordered_from_series(ser) ==
    BuildResult(ClassifyFrom(ser, _format_period_series(ser), 1, EmptyAcc))

(***************************************************************************)
(* State                                                                   *)
(***************************************************************************)
VARIABLES
    \* a call of _detect_period_columns: its argument, its position, its locals
    cols, dpc, di, nd_col, aloc_col, fech_col,
    \* a call of _format_period_from_maybe_date_or_string
    val, fpc, dt, fmt_out,
    \* the date whose label is being formatted again, Null if none
    origin,
    \* a call of _period_options_ordered_from_series
    series, opc, oi, labels, tuples, others, result,
    \* a render of the page (app): the frame, the message shown, the roles,
    \* the position in filtros_config, the options and the selection of each
    \* multiselect, the position in filtros_selected, the rows kept
    pc, df, shown, col_periodo_nd, col_periodo_aloc, col_periodo_fech,
    idx, filtros_opcoes, filtros_selected, ai, df_filtrado,
    \* the exception carregar_aba raised, "none" if it returned
    e

detVars == <<cols, dpc, di, nd_col, aloc_col, fech_col>>

fmtVars == <<val, fpc, dt, fmt_out, origin>>

optVars == <<series, opc, oi, labels, tuples, others, result>>

pageVars == <<pc, df, shown, col_periodo_nd, col_periodo_aloc, col_periodo_fech,
              idx, filtros_opcoes, filtros_selected, ai, df_filtrado, e>>

vars == <<detVars, fmtVars, optVars, pageVars>>

NaT == [kind |-> "null", year |-> 0, month |-> 0]

Set25 == <<"S","e","t","/","2","5">>

Out24 == <<"O","u","t","/","2","4">>

DetIdle ==
    /\ cols = <<>> /\ dpc = "idle" /\ di = 0
    /\ nd_col = NoCol /\ aloc_col = NoCol /\ fech_col = NoCol

FmtIdle == val = Null /\ fpc = "idle" /\ dt = NaT /\ fmt_out = Null /\ origin = Null

OptIdle ==
    /\ series = <<>> /\ opc = "idle" /\ oi = 0 /\ labels = <<>>
    /\ tuples = <<>> /\ others = {} /\ result = <<>>

EmptyFrame == [columns |-> <<>>, rows |-> <<>>]

PageIdle ==
    /\ pc = "idle" /\ df = EmptyFrame /\ shown = "nothing"
    /\ col_periodo_nd = NoCol /\ col_periodo_aloc = NoCol /\ col_periodo_fech = NoCol
    /\ idx = 0 /\ filtros_opcoes = <<>> /\ filtros_selected = <<>> /\ ai = 0
    /\ df_filtrado = {} /\ e = "none"

(***************************************************************************)
(* Inputs                                                                  *)
(***************************************************************************)
\* the longest list of column names given to the detector
MaxCols == 3

\* the longest raw column given to the option builder
MaxRows == 4

ColumnNamePool ==
    { <<"P","e","r","i_acute","o","d","o"," ","N","D">>,
      <<"P","e","r","i","o","d","o","_","F","e","c","h","a","m","e","n","t","o">>,
      <<"A_acute","r","e","a">>,
      <<"P","e","r","i_acute","o","d","o"," ","A","l","o","c","a","c_cedilla","a_tilde","o">>,
      <<"p","e","r","i","o","d","o"," ","n","d">>,
      <<"P","e","r","i","o","d","o"," ","N","D"," ","R","e","f">>,
      <<"P","e","r","i","o","d","o"," ","A","l","o","c"," ","N","D">>,
      <<"P","e","r","i_acute","o","d","o"," ","F","e","c","h","a","m","e","n","t","o">>,
      <<"P","e","r","i","o","d","o"," ","A","l","o","c","a","c","a","o"," ","R","e","f">> }

IsInjective(f) == \A i, j \in DOMAIN f : i # j => f[i] # f[j]

\* the column names of a sheet are distinct
ColumnLists ==
    {f \in UNION {[1..n -> ColumnNamePool] : n \in 1..MaxCols} : IsInjective(f)}

WordTokens ==
    { <<"S","e","t">>, <<"C","o","n","j","u","n","t","o">>, <<"O","u","t">>,
      <<"b","l","a","h">>, <<"x","y","z">>, <<"f","o","o">>, <<"D","e","z">>,
      <<"s","e","t","e","m","b","r","o">> }

Separators == { <<"/">>, <<"-">>, <<" ">> }

YearTokens == { <<"2","5">>, <<"2","4">>, <<"2","0","2","5">>, <<"1","2">>, <<>> }

TextInputs ==
    {Str(w \o sep \o y) : w \in WordTokens, sep \in Separators, y \in YearTokens}
        \cup {Str(w) : w \in WordTokens}
        \cup { Str(<<"2","0","2","5","-","0","9">>),
               Str(<<"2","0","2","5","-","0","9","-","0","1">>),
               Str(<<"0","9","/","2","0","2","5">>),
               Str(<<"N","o","n","e">>) }

DateInputs == {DateV(y, m) : y \in 2000..2099, m \in 1..12}

FormatInputs == TextInputs \cup DateInputs \cup {Null, Num(5), Num(45000)}

OptionValues ==
    { Str(<<"S","e","t","/","2","5">>), Str(<<"O","u","t","/","2","4">>),
      Str(<<"x","y","z">>), Str(<<"b","l","a","h">>), Null, DateV(2025, 9) }

SeriesInputs == UNION {[1..n -> OptionValues] : n \in 0..MaxRows}

(***************************************************************************)
(* _detect_period_columns, step by step                                    *)
(***************************************************************************)
DetectInit ==
    /\ cols \in ColumnLists /\ dpc = "scan" /\ di = 1
    /\ nd_col = NoCol /\ aloc_col = NoCol /\ fech_col = NoCol
    /\ FmtIdle /\ OptIdle /\ PageIdle

\* lines 67-74, one column
DetectScan ==
    /\ dpc = "scan" /\ di <= Len(cols)
    /\ LET st == ScanStep(cols[di], [nd |-> nd_col, aloc |-> aloc_col, fech |-> fech_col])
       IN  nd_col' = st.nd /\ aloc_col' = st.aloc /\ fech_col' = st.fech
    /\ di' = di + 1
    /\ dpc' = IF di = Len(cols) THEN "fallback_nd" ELSE "scan"
    /\ UNCHANGED <<cols, fmtVars, optVars, pageVars>>

\* lines 77-82
DetectFallbackNd ==
    /\ dpc = "fallback_nd"
    /\ nd_col' = FallbackNd(cols, nd_col)
    /\ dpc' = "fallback_aloc"
    /\ UNCHANGED <<cols, di, aloc_col, fech_col, fmtVars, optVars, pageVars>>

\* lines 83-88
DetectFallbackAloc ==
    /\ dpc = "fallback_aloc"
    /\ aloc_col' = FallbackAloc(cols, aloc_col)
    /\ dpc' = "fallback_fech"
    /\ UNCHANGED <<cols, di, nd_col, fech_col, fmtVars, optVars, pageVars>>

\* lines 89-96
DetectFallbackFech ==
    /\ dpc = "fallback_fech"
    /\ fech_col' = FallbackFech(cols, fech_col)
    /\ dpc' = "done"
    /\ UNCHANGED <<cols, di, nd_col, aloc_col, fmtVars, optVars, pageVars>>

DetectNext == DetectScan \/ DetectFallbackNd \/ DetectFallbackAloc \/ DetectFallbackFech

SpecDetect == DetectInit /\ [][DetectNext]_vars

(***************************************************************************)
(* _format_period_from_maybe_date_or_string, step by step                  *)
(***************************************************************************)
FormatInit ==
    /\ val \in FormatInputs /\ fpc = "to_datetime" /\ dt = NaT /\ fmt_out = Null
    /\ origin = Null
    /\ DetIdle /\ OptIdle /\ PageIdle

\* lines 166-173
FormatToDatetime ==
    /\ fpc = "to_datetime"
    /\ dt' = to_datetime(val)
    /\ IF dt'.kind # "null"
       THEN fmt_out' = FormatFromDatetime(dt') /\ fpc' = "done"
       ELSE fmt_out' = fmt_out /\ fpc' = "from_string"
    /\ UNCHANGED <<val, origin, detVars, optVars, pageVars>>

\* lines 176-180
FormatFreeText ==
    /\ fpc = "from_string"
    /\ fmt_out' = FormatFromString(val)
    /\ fpc' = "done"
    /\ UNCHANGED <<val, dt, origin, detVars, optVars, pageVars>>

\* the label of a date is given to the function as a text
FormatLabelAgain ==
    /\ fpc = "done" /\ origin = Null
    /\ val.kind = "date" /\ fmt_out.kind = "str"
    /\ origin' = val
    /\ val' = fmt_out
    /\ fpc' = "to_datetime" /\ dt' = NaT /\ fmt_out' = Null
    /\ UNCHANGED <<detVars, optVars, pageVars>>

FormatNext == FormatToDatetime \/ FormatFreeText \/ FormatLabelAgain

SpecFormat == FormatInit /\ [][FormatNext]_vars

(***************************************************************************)
(* _period_options_ordered_from_series, step by step                       *)
(***************************************************************************)
OptionsInit ==
    /\ series \in SeriesInputs /\ opc = "format" /\ oi = 1 /\ labels = <<>>
    /\ tuples = <<>> /\ others = {} /\ result = <<>>
    /\ DetIdle /\ FmtIdle /\ PageIdle

\* line 197
OptionsFormat ==
    /\ opc = "format"
    /\ labels' = _format_period_series(series)
    /\ opc' = "classify"
    /\ UNCHANGED <<series, oi, tuples, others, result, detVars, fmtVars, pageVars>>

\* lines 201-227, one element
OptionsClassify ==
    /\ opc = "classify" /\ oi <= Len(series)
    /\ LET acc == ClassifyStep(series[oi], labels[oi], [tuples |-> tuples, others |-> others])
       IN  tuples' = acc.tuples /\ others' = acc.others
    /\ oi' = oi + 1
    /\ UNCHANGED <<series, opc, labels, result, detVars, fmtVars, pageVars>>

\* lines 229-238
OptionsReturn ==
    /\ opc = "classify" /\ oi > Len(series)
    /\ result' = BuildResult([tuples |-> tuples, others |-> others])
    /\ opc' = "done"
    /\ UNCHANGED <<series, oi, labels, tuples, others, detVars, fmtVars, pageVars>>

OptionsNext == OptionsFormat \/ OptionsClassify \/ OptionsReturn

SpecOptions == OptionsInit /\ [][OptionsNext]_vars

(***************************************************************************)
(* The page: app()                                                         *)
(***************************************************************************)
col_Unnamed0 == <<"U","n","n","a","m","e","d",":"," ","0">>

col_PeriodoND == <<"P","e","r","i_acute","o","d","o"," ","N","D">>

col_PeriodoAlocacao == <<"P","e","r","i_acute","o","d","o"," ","A","l","o","c","a","c_cedilla","a_tilde","o">>

col_PeriodoFechamento == <<"P","e","r","i_acute","o","d","o"," ","F","e","c","h","a","m","e","n","t","o">>

col_Area == <<"A_acute","r","e","a">>

col_Analista == <<"A","n","a","l","i","s","t","a">>

col_Projeto == <<"P","r","o","j","e","t","o">>

col_ContaContabil == <<"C","o","n","t","a"," ","C","o","n","t","a_acute","b","i","l">>

col_StatusPortal == <<"S","t","a","t","u","s"," ","P","o","r","t","a","l">>

col_ND == <<"N","D">>

key_PeriodoND_fmt == <<"P","e","r","i_acute","o","d","o"," ","N","D","_","f","m","t">>

key_PeriodoAloc_fmt == <<"P","e","r","i_acute","o","d","o"," ","A","l","o","c","_","f","m","t">>

key_PeriodoFechamento_fmt == <<"P","e","r","i_acute","o","d","o"," ","F","e","c","h","a","m","e","n","t","o","_","f","m","t">>

\* lines 281-290
filtros_config ==
    << [label |-> col_PeriodoND, col_key |-> key_PeriodoND_fmt, is_period |-> TRUE],
       [label |-> col_PeriodoFechamento, col_key |-> key_PeriodoFechamento_fmt, is_period |-> TRUE],
       [label |-> col_Area, col_key |-> col_Area, is_period |-> FALSE],
       [label |-> col_Analista, col_key |-> col_Analista, is_period |-> FALSE],
       [label |-> col_Projeto, col_key |-> col_Projeto, is_period |-> FALSE],
       [label |-> col_ContaContabil, col_key |-> col_ContaContabil, is_period |-> FALSE],
       [label |-> col_StatusPortal, col_key |-> col_StatusPortal, is_period |-> FALSE],
       [label |-> col_ND, col_key |-> col_ND, is_period |-> FALSE] >>

\* the most rows a sheet holds
MaxSheetRows == 2

\* the most options the user picks in one multiselect
MaxSelected == 2

SheetLayouts ==
    { <<col_Unnamed0, col_PeriodoND, col_Area>>,
      <<col_Unnamed0, col_PeriodoAlocacao, col_PeriodoFechamento>>,
      <<col_Area, col_ND>>,
      <<col_Unnamed0, col_Analista, col_Projeto, col_ContaContabil, col_StatusPortal>> }

\* the values a cell of column c may hold in row r of a sheet
CellChoices(c, r) ==
    CASE c = col_Unnamed0 -> {Num(r - 1)}
      [] c \in {col_PeriodoND, col_PeriodoAlocacao, col_PeriodoFechamento} ->
            {Str(Set25), Str(<<"x","y","z">>), Str(<<"N","o","n","e">>)}
      [] c = col_ND -> {Num(1), Num(2)}
      [] c \in {col_Area, col_Analista} -> {Str(<<"T","I">>), Str(<<"R","H">>)}
      [] OTHER -> {Str(<<"A">>)}

SheetRow(layout, r) ==
    {row \in [DOMAIN layout -> UNION {CellChoices(layout[c], r) : c \in DOMAIN layout}] :
        \A c \in DOMAIN layout : row[c] \in CellChoices(layout[c], r)}

RECURSIVE SheetRows(_, _)
SheetRows(layout, n) ==
    IF n = 0 THEN {<<>>}
    ELSE {Append(rs, row) : rs \in SheetRows(layout, n - 1), row \in SheetRow(layout, n)}

\* the frames carregar_aba may return
SheetsOf(layout) ==
    {[columns |-> layout, rows |-> rs] :
        rs \in UNION {SheetRows(layout, n) : n \in 0..MaxSheetRows}}

Sheets == UNION {SheetsOf(layout) : layout \in SheetLayouts}

HasColumn(frame, name) == \E c \in DOMAIN frame.columns : frame.columns[c] = name

\* frame[name]: the cells of a column, by row
Column(frame, name) ==
    LET c == CHOOSE k \in DOMAIN frame.columns : frame.columns[k] = name
    IN  [r \in DOMAIN frame.rows |-> frame.rows[r][c]]

\* frame[name] = values: the column is replaced, or added at the end
SetColumn(frame, name, values) ==
    IF HasColumn(frame, name)
    THEN LET c == CHOOSE k \in DOMAIN frame.columns : frame.columns[k] = name
         IN  [frame EXCEPT !.rows = [r \in DOMAIN frame.rows |-> [frame.rows[r] EXCEPT ![c] = values[r]]]]
    ELSE [columns |-> Append(frame.columns, name),
          rows |-> [r \in DOMAIN frame.rows |-> Append(frame.rows[r], values[r])]]

\* frame.drop(columns=[first_col])
DropFirstColumn(frame) ==
    [columns |-> Tail(frame.columns), rows |-> [r \in DOMAIN frame.rows |-> Tail(frame.rows[r])]]

StartsWith(s, prefix) == Len(s) >= Len(prefix) /\ SubSeq(s, 1, Len(prefix)) = prefix

\* a <= b for two cells of a column (TypeError, hence not monotonic, for cells
\* of different kinds or null cells)
CellLeq(a, b) ==
    CASE a.kind = "str" /\ b.kind = "str" -> ~StrLess(b.s, a.s)
      [] a.kind = "num" /\ b.kind = "num" -> a.n <= b.n
      [] a.kind = "date" /\ b.kind = "date" ->
            a.year < b.year \/ (a.year = b.year /\ a.month <= b.month)
      [] OTHER -> FALSE

\* Series.is_monotonic_increasing
is_monotonic_increasing(ser) ==
    /\ \A r \in DOMAIN ser : ~IsNa(ser[r])
    /\ \A r \in 1..(Len(ser) - 1) : CellLeq(ser[r], ser[r + 1])

\* lines 259-265
WithoutSequentialColumn(frame) ==
    IF frame.columns = <<>> THEN frame
    ELSE IF \/ StartsWith(Lower(frame.columns[1]), <<"u","n","n","a","m","e","d">>)
            \/ is_monotonic_increasing(Column(frame, frame.columns[1]))
    THEN DropFirstColumn(frame)
    ELSE frame

\* lines 271-276 without the tests `if col_periodo_nd:` ... of lines 271, 273
\* and 275: the helper column of a role is made even when the role has no column
WithFormattedColumns_Unguarded(frame, nd, aloc, fech) ==
    LET blank == [r \in DOMAIN frame.rows |-> Null]
        f1 == SetColumn(frame, key_PeriodoND_fmt,
                  IF nd # NoCol THEN _format_period_series(Column(frame, nd)) ELSE blank)
        f2 == SetColumn(f1, key_PeriodoAloc_fmt,
                  IF aloc # NoCol THEN _format_period_series(Column(f1, aloc)) ELSE blank)
    IN  SetColumn(f2, key_PeriodoFechamento_fmt,
                  IF fech # NoCol THEN _format_period_series(Column(f2, fech)) ELSE blank)

\* lines 271-276
WithFormattedColumns(frame, nd, aloc, fech) ==
    LET f1 == IF nd # NoCol
              THEN SetColumn(frame, key_PeriodoND_fmt, _format_period_series(Column(frame, nd)))
              ELSE frame
        f2 == IF aloc # NoCol
              THEN SetColumn(f1, key_PeriodoAloc_fmt, _format_period_series(Column(f1, aloc)))
              ELSE f1
    IN  IF fech # NoCol
        THEN SetColumn(f2, key_PeriodoFechamento_fmt, _format_period_series(Column(f2, fech)))
        ELSE f2

\* lines 310-317: the raw column whose values make the options of a period filter
BaseSeries(frame, col_key, nd, aloc, fech) ==
    CASE col_key = key_PeriodoND_fmt ->
            IF HasColumn(frame, nd) THEN Column(frame, nd) ELSE <<>>
      [] col_key = key_PeriodoAloc_fmt ->
            IF HasColumn(frame, aloc) THEN Column(frame, aloc) ELSE <<>>
      [] col_key = key_PeriodoFechamento_fmt ->
            IF HasColumn(frame, fech) THEN Column(frame, fech) ELSE <<>>
      [] OTHER -> Column(frame, col_key)

\* line 323: sorted(df[col_key].dropna().astype(str).unique())
TextOptions(ser) == SortStrings({PyStr(ser[r]) : r \in {k \in DOMAIN ser : ~IsNa(ser[k])}})

\* lines 306-324: the options of the multiselect of one entry of filtros_config
FilterOptions(frame, entry, nd, aloc, fech) ==
    IF entry.is_period
    THEN _period_options_ordered_from_series(BaseSeries(frame, entry.col_key, nd, aloc, fech))
    ELSE TextOptions(Column(frame, entry.col_key))

\* what st.multiselect may return: options the user picked, none by default
Selections(opcoes) == {sel \in SUBSET Range(opcoes) : Cardinality(sel) <= MaxSelected}

\* lines 332-335: df_filtrado[df_filtrado[col_key].astype(str).isin(valores)]
RowsIsin(frame, kept, col_key, valores) ==
    {r \in kept : PyStr(Column(frame, col_key)[r]) \in valores}

\* lines 328-335 without the `if not valores: continue` of lines 329-330
FilterRows_NoSkip(frame, kept, col_key, valores) == RowsIsin(frame, kept, col_key, valores)

\* lines 328-335, one entry of filtros_selected
FilterRows(frame, kept, col_key, valores) ==
    IF valores = {} THEN kept ELSE RowsIsin(frame, kept, col_key, valores)

PageInit ==
    /\ pc = "load" /\ df = EmptyFrame /\ shown = "nothing"
    /\ col_periodo_nd = NoCol /\ col_periodo_aloc = NoCol /\ col_periodo_fech = NoCol
    /\ idx = 0 /\ filtros_opcoes = <<>> /\ filtros_selected = <<>> /\ ai = 0
    /\ df_filtrado = {} /\ e = "none"
    /\ DetIdle /\ FmtIdle /\ OptIdle

\* trata_tabelas.py lines 14-19: what carregar_aba raises when the file is
\* missing, when the sheet is missing, and on any other error of read_excel
LoadErrors == {"FileNotFoundError", "ValueError", "RuntimeError"}

\* lines 248-252 without the `return` of line 252: the error is shown and the
\* render goes on
LoadFails_NoReturn ==
    /\ pc = "load"
    /\ e' \in LoadErrors
    /\ shown' = "error"
    /\ pc' = "detect"
    /\ UNCHANGED <<df, col_periodo_nd, col_periodo_aloc, col_periodo_fech, idx,
                   filtros_opcoes, filtros_selected, ai, df_filtrado, detVars, fmtVars, optVars>>

\* lines 248-252: carregar_aba raises, st.error shows the message, app returns
LoadFails ==
    /\ pc = "load"
    /\ e' \in LoadErrors
    /\ shown' = "error"
    /\ pc' = "done"
    /\ UNCHANGED <<df, col_periodo_nd, col_periodo_aloc, col_periodo_fech, idx,
                   filtros_opcoes, filtros_selected, ai, df_filtrado, detVars, fmtVars, optVars>>

\* lines 248-249: carregar_aba returns the sheet
LoadSheet ==
    /\ pc = "load"
    /\ df' \in Sheets
    /\ pc' = "loaded"
    /\ UNCHANGED <<shown, col_periodo_nd, col_periodo_aloc, col_periodo_fech, idx,
                   filtros_opcoes, filtros_selected, ai, df_filtrado, e, detVars, fmtVars, optVars>>

\* lines 254-256
WarnEmpty ==
    /\ pc = "loaded" /\ df.rows = <<>>
    /\ shown' = "warning"
    /\ pc' = "done"
    /\ UNCHANGED <<df, col_periodo_nd, col_periodo_aloc, col_periodo_fech, idx,
                   filtros_opcoes, filtros_selected, ai, df_filtrado, e, detVars, fmtVars, optVars>>

\* lines 258-265
DropSequentialColumn ==
    /\ pc = "loaded" /\ df.rows # <<>>
    /\ df' = WithoutSequentialColumn(df)
    /\ pc' = "detect"
    /\ UNCHANGED <<shown, col_periodo_nd, col_periodo_aloc, col_periodo_fech, idx,
                   filtros_opcoes, filtros_selected, ai, df_filtrado, e, detVars, fmtVars, optVars>>

\* lines 267-276
DetectAndFormat ==
    /\ pc = "detect"
    /\ LET roles == _detect_period_columns(df.columns)
       IN  /\ col_periodo_nd' = roles.nd
           /\ col_periodo_aloc' = roles.aloc
           /\ col_periodo_fech' = roles.fech
           /\ df' = WithFormattedColumns(df, roles.nd, roles.aloc, roles.fech)
    /\ idx' = 1
    /\ pc' = "filters"
    /\ UNCHANGED <<shown, filtros_opcoes, filtros_selected, ai, df_filtrado,
                   e, detVars, fmtVars, optVars>>

\* lines 300-303: the column of the entry is not in the frame
SkipFilter ==
    /\ pc = "filters" /\ idx <= Len(filtros_config)
    /\ ~HasColumn(df, filtros_config[idx].col_key)
    /\ idx' = idx + 1
    /\ UNCHANGED <<pc, df, shown, col_periodo_nd, col_periodo_aloc, col_periodo_fech,
                   filtros_opcoes, filtros_selected, ai, df_filtrado, e, detVars, fmtVars, optVars>>

\* lines 300-324: the multiselect of the entry, and what the user picked in it
BuildFilter ==
    /\ pc = "filters" /\ idx <= Len(filtros_config)
    /\ HasColumn(df, filtros_config[idx].col_key)
    /\ LET opcoes == FilterOptions(df, filtros_config[idx], col_periodo_nd,
                                   col_periodo_aloc, col_periodo_fech)
       IN  /\ filtros_opcoes' = Append(filtros_opcoes, opcoes)
           /\ \E sel \in Selections(opcoes) :
                 filtros_selected' = Append(filtros_selected,
                     [col_key |-> filtros_config[idx].col_key, valores |-> sel])
    /\ idx' = idx + 1
    /\ UNCHANGED <<pc, df, shown, col_periodo_nd, col_periodo_aloc, col_periodo_fech,
                   ai, df_filtrado, e, detVars, fmtVars, optVars>>

\* line 327: df_filtrado = df.copy()
CopyFrame ==
    /\ pc = "filters" /\ idx > Len(filtros_config)
    /\ df_filtrado' = DOMAIN df.rows
    /\ ai' = 1
    /\ pc' = "apply"
    /\ UNCHANGED <<df, shown, col_periodo_nd, col_periodo_aloc, col_periodo_fech, idx,
                   filtros_opcoes, filtros_selected, e, detVars, fmtVars, optVars>>

\* lines 328-335, one entry of filtros_selected
ApplyFilter ==
    /\ pc = "apply" /\ ai <= Len(filtros_selected)
    /\ df_filtrado' = FilterRows(df, df_filtrado, filtros_selected[ai].col_key,
                                 filtros_selected[ai].valores)
    /\ ai' = ai + 1
    /\ UNCHANGED <<pc, df, shown, col_periodo_nd, col_periodo_aloc, col_periodo_fech, idx,
                   filtros_opcoes, filtros_selected, e, detVars, fmtVars, optVars>>

\* lines 337-418: the metrics, the totals and the table of the rows kept
Render ==
    /\ pc = "apply" /\ ai > Len(filtros_selected)
    /\ shown' = "table"
    /\ pc' = "done"
    /\ UNCHANGED <<df, col_periodo_nd, col_periodo_aloc, col_periodo_fech, idx,
                   filtros_opcoes, filtros_selected, ai, df_filtrado, e, detVars, fmtVars, optVars>>

Next ==
    \/ LoadFails \/ LoadSheet \/ WarnEmpty \/ DropSequentialColumn \/ DetectAndFormat
    \/ SkipFilter \/ BuildFilter \/ CopyFrame \/ ApplyFilter \/ Render

Spec == PageInit /\ [][Next]_vars

\* Streamlit runs app() from top to bottom: a render that has not ended takes
\* its next step.  This is weak fairness of Next, WF_vars(Next), with
\* ENABLED <<Next>>_vars written out: in every state where pc # "done" the
\* guards of the actions leave one of them enabled.
RenderRuns == []<>(pc = "done") \/ []<><<pc # "done">>_vars

FairSpec == Spec /\ RenderRuns

(***************************************************************************)
(* Properties of _format_period_from_maybe_date_or_string (SpecFormat)     *)
(***************************************************************************)
Conjunto25 == Str(<<"C","o","n","j","u","n","t","o","/","2","5">>)

\* C1: the value "Conjunto/25" is formatted as the label "Set/25"
\* (month 9 of 2025).
C1_ConjuntoIsSet ==
    (fpc = "done" /\ val = Conjunto25) => fmt_out = Str(Set25)

(***************************************************************************)
(* Properties of _detect_period_columns (SpecDetect)                       *)
(***************************************************************************)
Example5Columns ==
    << <<"P","e","r","i_acute","o","d","o"," ","N","D">>,
       <<"P","e","r","i","o","d","o","_","F","e","c","h","a","m","e","n","t","o">>,
       <<"A_acute","r","e","a">> >>

HasPeriodoAnd(c, kw) == Contains(_normalize(c), kw_periodo) /\ Contains(_normalize(c), kw)

\* C2: the Allocation role (the Closing role) goes only to a column whose
\* normalized name holds "periodo" and "aloc" ("fech"), and is None when there
\* is no such column; for the columns "Período ND", "Periodo_Fechamento", "Área"
\* the result is nd = "Período ND", allocation = None,
\* closing = "Periodo_Fechamento".
C2_AlocFechNeedKeywords ==
    dpc = "done" =>
        /\ aloc_col # NoCol => HasPeriodoAnd(aloc_col, kw_aloc)
        /\ fech_col # NoCol => HasPeriodoAnd(fech_col, kw_fech)
        /\ cols = Example5Columns =>
              /\ nd_col = Example5Columns[1]
              /\ aloc_col = NoCol
              /\ fech_col = Example5Columns[2]

\* C3: the column returned for the Allocation role and the column returned for
\* the Closing role never have a normalized name that holds "nd".
C3_AlocFechNeverNd ==
    dpc = "done" =>
        /\ aloc_col # NoCol => ~Contains(_normalize(aloc_col), kw_nd)
        /\ fech_col # NoCol => ~Contains(_normalize(fech_col), kw_nd)

Scanned == IF dpc = "scan" THEN di - 1 ELSE Len(cols)

LastExactElseFirstKeyword(E, K) ==
    IF E # {} THEN cols[SetMax(E)] ELSE IF K # {} THEN cols[SetMin(K)] ELSE NoCol

ScanExpectNd ==
    LastExactElseFirstKeyword({i \in 1..Scanned : IsExactNd(cols[i])},
                              {i \in 1..Scanned : HasPeriodoAnd(cols[i], kw_nd)})

ScanExpectAloc ==
    LastExactElseFirstKeyword({i \in 1..Scanned : IsExactAloc(cols[i])},
                              {i \in 1..Scanned : HasPeriodoAnd(cols[i], kw_aloc)})

ScanExpectFech ==
    LastExactElseFirstKeyword({i \in 1..Scanned : IsExactFech(cols[i])},
                              {i \in 1..Scanned : HasPeriodoAnd(cols[i], kw_fech)})

\* what the keyword search of lines 77-94 adds to a role the scan left empty:
\* the earliest column it accepts
ElseEarliest(found, M) ==
    IF found # NoCol THEN found ELSE IF M # {} THEN cols[SetMin(M)] ELSE NoCol

Converts(v) == _format_period_from_maybe_date_or_string(v) # Null

\* the labels of the values of the column that convert
ResolvedLabels ==
    {_format_period_from_maybe_date_or_string(series[i]).s :
        i \in {j \in DOMAIN series : Converts(series[j])}}

\* the texts of the values of the column that are not null and do not convert
UnresolvedStrings ==
    {PyStr(series[i]) : i \in {j \in DOMAIN series : ~IsNa(series[j]) /\ ~Converts(series[j])}}

\* C5: the list of options holds no string twice.
C5_NoDuplicates ==
    opc = "done" => \A i, j \in DOMAIN result : i # j => result[i] # result[j]

\* a column with a repeated label and a repeated unresolved text
C5_Witness ==
    /\ opc = "done"
    /\ \E i, j \in DOMAIN series : i # j /\ Converts(series[i])
          /\ _format_period_from_maybe_date_or_string(series[i])
                = _format_period_from_maybe_date_or_string(series[j])
    /\ ResolvedLabels # {} /\ UnresolvedStrings # {}
    /\ Len(result) < Len(series)

\* the month and the year a label "Mon/YY" names
LabelMonth(l) == CHOOSE m \in DOMAIN _MESES_PT : _MESES_PT[m] = SubSeq(l, 1, Len(l) - 3)

LabelYear(l) == 2000 + 10 * DigitVal(l[Len(l) - 1]) + DigitVal(l[Len(l)])

LabelBefore(a, b) ==
    \/ LabelYear(a) < LabelYear(b)
    \/ (LabelYear(a) = LabelYear(b) /\ LabelMonth(a) < LabelMonth(b))

Example6Series ==
    <<Str(Set25), Str(Set25), Str(Out24), Str(<<"x","y","z">>)>>

\* C6: the list of options is the resolved labels in ascending (year, month)
\* order followed by the unresolved strings in lexicographic order; for
\* ["Set/25", "Set/25", "Out/24", "xyz"] it is ["Out/24", "Set/25", "xyz"].
C6_ResolvedThenUnresolved ==
    opc = "done" =>
        /\ \E k \in 0..Len(result) :
              /\ {result[i] : i \in 1..k} = ResolvedLabels
              /\ {result[i] : i \in (k + 1)..Len(result)} = UnresolvedStrings
              /\ \A i \in 1..(k - 1) : LabelBefore(result[i], result[i + 1])
              /\ \A i \in (k + 1)..(Len(result) - 1) : StrLess(result[i], result[i + 1])
        /\ series = Example6Series => result = <<Out24, Set25, <<"x","y","z">>>>

\* two labels of different years, the earlier month in the later year, and two
\* unresolved texts
C6_Witness ==
    /\ opc = "done"
    /\ Cardinality(UnresolvedStrings) >= 2
    /\ \E a, b \in ResolvedLabels :
          LabelYear(a) < LabelYear(b) /\ LabelMonth(b) < LabelMonth(a)

PeriodKeys == {key_PeriodoND_fmt, key_PeriodoAloc_fmt, key_PeriodoFechamento_fmt}

\* the column detect_period_columns resolved for the role of a period filter
ResolvedColumn(col_key) ==
    CASE col_key = key_PeriodoND_fmt -> col_periodo_nd
      [] col_key = key_PeriodoAloc_fmt -> col_periodo_aloc
      [] col_key = key_PeriodoFechamento_fmt -> col_periodo_fech

Applying == pc = "apply" /\ ai <= Len(filtros_selected)

\* the rows of `kept` whose cell in the resolved period column has a label
\* among `valores`
RowsWithLabelIn(kept, col_key, valores) ==
    {r \in kept :
        LET lbl == _format_period_from_maybe_date_or_string(
                       Column(df, ResolvedColumn(col_key))[r])
        IN  lbl # Null /\ lbl.s \in valores}

\* C8: when values are selected on a period filter, the rows kept are those
\* whose cell in the resolved period column has its label among the selected
\* values; a row whose cell does not convert is not kept.
C8_RetainedIffLabelSelected ==
    [][(/\ Applying
        /\ filtros_selected[ai].col_key \in PeriodKeys
        /\ filtros_selected[ai].valores # {})
          => df_filtrado' = RowsWithLabelIn(df_filtrado, filtros_selected[ai].col_key,
                                            filtros_selected[ai].valores)]_vars

\* C9: an empty selection leaves the rows kept as they are, for every
\* filterable column; only a selection that is not empty can remove rows.
C9_EmptySelectionPassThrough ==
    [][Applying =>
          IF filtros_selected[ai].valores = {}
          THEN df_filtrado' = df_filtrado
          ELSE df_filtrado' \subseteq df_filtrado]_vars

\* a render with two filters, one left empty, one with a selection that removed
\* some rows and kept others
C9_Witness ==
    /\ pc = "done" /\ shown = "table"
    /\ \E i, j \in DOMAIN filtros_selected :
          filtros_selected[i].valores = {} /\ filtros_selected[j].valores # {}
    /\ df_filtrado # {}
    /\ df_filtrado # DOMAIN df.rows

\* the entry of filtros_selected for a column, or 0
SelectedAt(col_key) ==
    LET I == {i \in DOMAIN filtros_selected : filtros_selected[i].col_key = col_key}
    IN  IF I = {} THEN 0 ELSE SetMin(I)

\* a role has its multiselect: its options are those of the raw column, and the
\* rows kept obey what was picked in it
RoleHasFilter(col_key) ==
    LET i == SelectedAt(col_key)
    IN  /\ i # 0
        /\ filtros_opcoes[i] =
              _period_options_ordered_from_series(Column(df, ResolvedColumn(col_key)))
        /\ filtros_selected[i].valores # {} =>
              \A r \in df_filtrado :
                  PyStr(Column(df, col_key)[r]) \in filtros_selected[i].valores

\* C10: each of the roles ND, Allocation and Closing that is resolved to a
\* column has a multiselect whose options are ordered_options of the raw values
\* of that column, and the selection made in it is applied to the rows.
C10_EveryResolvedRoleFiltered ==
    (pc = "done" /\ shown = "table") =>
        \A col_key \in PeriodKeys :
            ResolvedColumn(col_key) # NoCol => RoleHasFilter(col_key)

\* the roles are known once line 268 has run
Detected == pc \in {"filters", "apply", "done"} /\ shown # "error" /\ shown # "warning"

SomeRoleUnresolved == \E col_key \in PeriodKeys : ResolvedColumn(col_key) = NoCol

\* C11: a role with no matching column is None; the render makes no helper
\* column and no filter for it, so no constraint is applied for it, and the
\* render still reaches the table.
C11_UnresolvedRoleSkipped ==
    /\ [](Detected =>
            \A col_key \in PeriodKeys :
                ResolvedColumn(col_key) = NoCol =>
                    ~HasColumn(df, col_key) /\ SelectedAt(col_key) = 0)
    /\ ((pc = "filters" /\ SomeRoleUnresolved) ~> (pc = "done" /\ shown = "table"))

\* a rendered table where ND has no column, Closing has one and a selection
\* was made on the Closing filter
C11_Witness ==
    /\ pc = "done" /\ shown = "table"
    /\ col_periodo_nd = NoCol /\ col_periodo_fech # NoCol
    /\ SelectedAt(key_PeriodoND_fmt) = 0
    /\ SelectedAt(key_PeriodoFechamento_fmt) # 0
    /\ filtros_selected[SelectedAt(key_PeriodoFechamento_fmt)].valores # {}

(***************************************************************************)
(* Properties of the labels (SpecFormat)                                   *)
(***************************************************************************)
\* the Portuguese abbreviations of the twelve months
Abbrev ==
    << <<"J","a","n">>, <<"F","e","v">>, <<"M","a","r">>, <<"A","b","r">>,
       <<"M","a","i">>, <<"J","u","n">>, <<"J","u","l">>, <<"A","g","o">>,
       <<"S","e","t">>, <<"O","u","t">>, <<"N","o","v">>, <<"D","e","z">> >>

\* abbreviation, slash, the two last digits of the year
ExpectedLabel(y, m) ==
    Abbrev[m] \o <<"/", Digits[((y % 100) \div 10) + 1], Digits[(y % 10) + 1]>>

\* C12: for every year in 2000..2099 and every month, format_period of a date
\* of that year and month is the Portuguese abbreviation of the month, a slash
\* and the two-digit year.
C12_DateLabel ==
    (fpc = "done" /\ val.kind = "date") =>
        /\ val.year \in 2000..2099 /\ val.month \in 1..12
        /\ fmt_out = Str(ExpectedLabel(val.year, val.month))

\* the date 2025-09-01 has been formatted as "Set/25"
C12_Witness ==
    fpc = "done" /\ val = DateV(2025, 9) /\ dt.kind = "date" /\ fmt_out = Str(Set25)

\* C13: the label of a date of 2000..2099, given to the free-text extraction,
\* yields the year and month of the date, and format_period maps the label to
\* itself.
C13_LabelRoundTrip ==
    (fpc = "done" /\ origin # Null) =>
        /\ val.kind = "str"
        /\ _extract_year_month_from_string(val.s).year = origin.year
        /\ _extract_year_month_from_string(val.s).month = origin.month
        /\ fmt_out = val

\* "Set/25", the label of 2025-09-01, went through the free-text path and came
\* out as "Set/25"
C13_Witness ==
    /\ fpc = "done" /\ origin = DateV(2025, 9)
    /\ val = Str(Set25) /\ dt = NaT /\ fmt_out = Str(Set25)

\* nothing of the render after the load has run: no frame, no role, no helper
\* column, no filter, no row kept
NothingRan ==
    /\ df = EmptyFrame
    /\ col_periodo_nd = NoCol /\ col_periodo_aloc = NoCol /\ col_periodo_fech = NoCol
    /\ idx = 0 /\ filtros_opcoes = <<>> /\ filtros_selected = <<>>
    /\ ai = 0 /\ df_filtrado = {}

\* C14: when carregar_aba raises (missing file, missing sheet, another error),
\* the page shows an error and the render ends there: detection, conversion
\* and filtering do not run in that render.
C14_LoadFailureEndsRender ==
    /\ [](e # "none" => (shown = "error" /\ pc = "done" /\ NothingRan))
    /\ [][e = "none"]_vars

\* the sheet is missing: the error is shown and the render has ended
C14_Witness ==
    e = "ValueError" /\ shown = "error" /\ pc = "done" /\ NothingRan

\* the only digits of the text are the two at its end, which line 123 reads
\* as the year
OnlyDigitsAreTrailingYear(rn) ==
    /\ Len(rn) >= 2
    /\ DigitAt(rn, Len(rn) - 1) /\ DigitAt(rn, Len(rn))
    /\ \A i \in 1..(Len(rn) - 2) : ~DigitAt(rn, i)

\* C15: with no month keyword, the month comes only from a numeral that is
\* not the digits read as the year: a text whose only digits are the two-digit
\* year at its end (as "foo 12") has no month and gets no label.
C15_NoMonthFromYearDigits ==
    (/\ fpc = "done" /\ val.kind = "str"
     /\ KeywordMonth(RawNorm(val.s)) = 0
     /\ OnlyDigitsAreTrailingYear(RawNorm(val.s)))
        => (_extract_year_month_from_string(val.s).month = 0 /\ fmt_out = Null)

\* the options one raw cell gives to a period multiselect
OptionsOfCell(v) == Range(_period_options_ordered_from_series(<<v>>))

\* the rows whose raw cell in the resolved period column gave the option
RowsProducing(col_key, option) ==
    {r \in DOMAIN df.rows :
        option \in OptionsOfCell(Column(df, ResolvedColumn(col_key))[r])}

\* C16: every option of a period multiselect, resolved label or unresolved
\* string, selected alone on the whole table keeps at least one row: the rows
\* whose raw cell gave that option.
C16_EveryOptionKeepsItsRows ==
    [][(/\ Applying
        /\ filtros_selected[ai].col_key \in PeriodKeys
        /\ df_filtrado = DOMAIN df.rows
        /\ Cardinality(filtros_selected[ai].valores) = 1)
          => \A option \in filtros_selected[ai].valores :
                /\ df_filtrado' # {}
                /\ df_filtrado' = RowsProducing(filtros_selected[ai].col_key, option)]_vars

====
